---- MODULE Spec2Model ----
(***************************************************************************)
(* Model of the blinds cost calculator (src/app.py): the line-item         *)
(* calculator calculate_blind_costs, the session operations of main /      *)
(* add_blind_form / display_blinds_table, the cost summary of main and the *)
(* worksheet written by generate_excel_report, whose formulas are          *)
(* evaluated the way a spreadsheet engine evaluates them.                  *)
(*                                                                         *)
(* Numbers.  Python's floats are modelled by exact rationals <<n, d>> in   *)
(* lowest terms with d > 0; a raised ZeroDivisionError is the value        *)
(* ZeroDivisionError (d = 0), which every operation propagates.  Rounding  *)
(* of IEEE doubles is outside the model.                                   *)
(*                                                                         *)
(* A blind's description and mount are carried through the code without    *)
(* entering any computation and are left out of the records; None for      *)
(* editing_blind_id is 0 (the code tests it with "or" and "is not None",   *)
(* and ids start at 1).                                                    *)
(*                                                                         *)
(* Specifications.  Spec: the operations on the collection.  SummarySpec:  *)
(* adding items and the settings the cost summary reads.  ExcelSpec: the   *)
(* report.  CalcSpec / FairCalcSpec: one call of calculate_blind_costs on  *)
(* arguments drawn from bounded sets, its while loop taken step by step.   *)
(***************************************************************************)
EXTENDS Integers, Sequences, FiniteSets, TLC

\* ---------------------------------------------------------------- bounds
MaxWidth == 86
MaxQty == 2
MaxBlinds == 2
MaxId == 3
MaxMotorQty == 1
MaxSavedBlinds == 1

\* ------------------------------------------------------- exact rationals
Abs(x) == IF x < 0 THEN -x ELSE x

RECURSIVE GCD(_, _)
GCD(a, b) == IF b = 0 THEN a ELSE GCD(b, a % b)

ZeroDivisionError == <<0, 0>>

IsErr(a) == a[2] = 0

Rat(n, d) ==
    IF d = 0 THEN ZeroDivisionError
    ELSE LET g == GCD(Abs(n), Abs(d))
             s == IF d < 0 THEN -1 ELSE 1
         IN  <<(s * n) \div g, (s * d) \div g>>

Num(n) == <<n, 1>>

Zero == Num(0)

Add(a, b) ==
    IF IsErr(a) \/ IsErr(b) THEN ZeroDivisionError
    ELSE LET g == GCD(a[2], b[2])
         IN  Rat(a[1] * (b[2] \div g) + b[1] * (a[2] \div g), (a[2] \div g) * b[2])

Neg(a) == IF IsErr(a) THEN a ELSE <<-a[1], a[2]>>

Sub(a, b) == Add(a, Neg(b))

Mul(a, b) ==
    IF IsErr(a) \/ IsErr(b) THEN ZeroDivisionError
    ELSE LET g1 == GCD(Abs(a[1]), b[2])
             g2 == GCD(Abs(b[1]), a[2])
         IN  Rat((a[1] \div g1) * (b[1] \div g2), (a[2] \div g2) * (b[2] \div g1))

Div(a, b) ==
    IF IsErr(a) \/ IsErr(b) \/ b[1] = 0 THEN ZeroDivisionError
    ELSE Mul(a, Rat(b[2], b[1]))

\* a < b; a comparison with an error value is false
Lt(a, b) ==
    /\ ~IsErr(a)
    /\ ~IsErr(b)
    /\ LET g == GCD(a[2], b[2])
       IN  a[1] * (b[2] \div g) < b[1] * (a[2] \div g)

Gt(a, b) == Lt(b, a)

Le(a, b) == ~IsErr(a) /\ ~IsErr(b) /\ ~Lt(b, a)

RECURSIVE SumSeq(_)
SumSeq(s) == IF s = <<>> THEN Zero ELSE Add(Head(s), SumSeq(Tail(s)))

\* ------------------------------------------------------ python dict.get
DictGet(d, k, default) == IF k \in DOMAIN d THEN d[k] ELSE default

\* ---------------------------------------------------------- the catalog
\* setup_database: the default product names, in catalog order
default_products == <<"sunscreen", "zebra", "solid_blackout", "curtain">>

available_products == {default_products[i] : i \in DOMAIN default_products}

PriceKey(name) == <<name, "price">>

RatioKey(name) == <<name, "profit_ratio">>

\* initialize_session_state: the defaults table
defaults ==
    [sunscreen      |-> [price |-> Rat(21, 10), ratio |-> Rat(3, 10), profit |-> Rat(7, 10)],
     zebra          |-> [price |-> Rat(26, 10), ratio |-> Rat(3, 10), profit |-> Rat(7, 10)],
     solid_blackout |-> [price |-> Rat(17, 10), ratio |-> Rat(3, 10), profit |-> Rat(7, 10)],
     curtain        |-> [price |-> Rat(19, 10), ratio |-> Rat(3, 10), profit |-> Rat(7, 10)]]

\* st.session_state.pricing after initialize_session_state
session_pricing ==
    [k \in {PriceKey(p) : p \in available_products} \cup {RatioKey(p) : p \in available_products} |->
        IF k[2] = "price" THEN defaults[k[1]].price ELSE defaults[k[1]].ratio]

\* ------------------------------------------------- calculate_blind_costs
total_sqft_final(width, height, total_blinds) ==
    Mul(Div(Mul(width, height), Num(144)), Num(total_blinds))

\* the test of "while remaining_width > 40"
SplitTest(remaining_width) == Gt(remaining_width, Num(40))

\* one iteration: pieces_to_ship.append(40.0); remaining_width -= 40
SplitBody(pieces, remaining_width) ==
    <<Append(pieces, Num(40)), Sub(remaining_width, Num(40))>>

\* SplitTail with the remainder piece forgotten
SplitTail_NoRemainder(pieces, remaining_width) == pieces

\* after the loop: if remaining_width > 0: pieces_to_ship.append(remaining_width)
SplitTail(pieces, remaining_width) ==
    IF Gt(remaining_width, Zero) THEN Append(pieces, remaining_width) ELSE pieces

RECURSIVE SplitWhile(_, _)
SplitWhile(pieces, remaining_width) ==
    IF SplitTest(remaining_width)
    THEN LET nxt == SplitBody(pieces, remaining_width) IN SplitWhile(nxt[1], nxt[2])
    ELSE SplitTail(pieces, remaining_width)

\* the branch "if resize_width and width > 40"
MustSplit(width, resize_width) == resize_width /\ Gt(width, Num(40))

pieces_to_ship(width, resize_width) ==
    IF MustSplit(width, resize_width) THEN SplitWhile(<<>>, width) ELSE <<width>>

\* width_in_cm_per_piece without the 2 inch margin
width_in_cm_NoMargin(piece_width) == Mul(piece_width, Rat(5, 2))

width_in_cm_per_piece(piece_width) == Mul(Add(piece_width, Num(2)), Rat(5, 2))

shipping_cost_for_one_piece(piece_width, shipping_rate) ==
    Div(Mul(Div(Mul(Mul(width_in_cm_per_piece(piece_width), Num(13)), Num(13)), Num(4850)), Num(10)),
        shipping_rate)

RECURSIVE ShippingLoop(_, _, _, _)
ShippingLoop(pieces, shipping_rate, total_blinds, acc) ==
    IF pieces = <<>> THEN acc
    ELSE ShippingLoop(Tail(pieces), shipping_rate, total_blinds,
                      Add(acc, Mul(shipping_cost_for_one_piece(Head(pieces), shipping_rate),
                                   Num(total_blinds))))

\* shipping_cost_final without the "if shipping_rate > 0" guard
shipping_cost_final_NoGuard(pieces, shipping_rate, total_blinds) ==
    ShippingLoop(pieces, shipping_rate, total_blinds, Zero)

shipping_cost_final(pieces, shipping_rate, total_blinds) ==
    IF Gt(shipping_rate, Zero) THEN ShippingLoop(pieces, shipping_rate, total_blinds, Zero)
    ELSE Zero

\* the pricing lookups of the product loop
CalcPrice(pricing, name) == DictGet(pricing, PriceKey(name), Zero)

CalcRatio(pricing, name) == DictGet(pricing, RatioKey(name), Num(1))

\* product_cost without the "if ratio > 0" guard
product_cost_NoRatioGuard(total_sqft, pricing, selected_products, name) ==
    IF DictGet(selected_products, name, FALSE)
    THEN Mul(total_sqft, Div(DictGet(pricing, PriceKey(name), Zero),
                             DictGet(pricing, RatioKey(name), Num(1))))
    ELSE Zero

product_cost(total_sqft, pricing, selected_products, name) ==
    IF DictGet(selected_products, name, FALSE)
    THEN LET price == CalcPrice(pricing, name)
             ratio == CalcRatio(pricing, name)
         IN  IF Gt(ratio, Zero) THEN Mul(total_sqft, Div(price, ratio)) ELSE Zero
    ELSE Zero

\* the results dict, given the pieces the split produced
CalcResults(pieces, width, height, total_blinds, pricing, shipping_rate, selected_products) ==
    LET sqft == total_sqft_final(width, height, total_blinds)
    IN  [total_sqft          |-> sqft,
         shipping_cost       |-> shipping_cost_final(pieces, shipping_rate, total_blinds),
         actual_total_pieces |-> Len(pieces) * total_blinds,
         number_of_splits    |-> Len(pieces),
         cost                |-> [name \in DOMAIN selected_products |->
                                     product_cost(sqft, pricing, selected_products, name)]]

calculate_blind_costs(width, height, total_blinds, pricing, shipping_rate, selected_products, resize_width) ==
    CalcResults(pieces_to_ship(width, resize_width), width, height, total_blinds, pricing,
                shipping_rate, selected_products)

\* ------------------------------------------------------------ the state
VARIABLES
    blinds_data,           \* st.session_state.blinds_data: the LineItem collection
    show_add_form,         \* st.session_state.show_add_form
    editing_blind_id,      \* st.session_state.editing_blind_id (None = 0)
    motor_price,           \* st.session_state.motor_price
    motor_quantity,        \* st.session_state.motor_quantity
    motor_shipping_price,  \* st.session_state.motor_shipping_price
    profit,                \* st.session_state["profit_<product>"]
    universal_ratio,       \* st.session_state["universal_ratio_<product>"]
    excel_report_data,     \* st.session_state.excel_report_data: <<>> for None, else <<worksheet>>
    invoices,              \* db.table('invoices'): the stored documents, in insertion order
    last_run,              \* the script run that handled the last event: the handler that
                           \* changed the collection or the database ("none": another one),
                           \* how often it called recalculate_all_blinds, and whether it
                           \* ended in st.error/st.stop
    c_pc,                  \* position inside one call of calculate_blind_costs
    c_args,                \* <<the arguments of that call>>, <<>> outside a call
    c_pieces,              \* its local pieces_to_ship
    c_remaining,           \* its local remaining_width
    c_results              \* <<its return value>>, <<>> before the return

vars == <<blinds_data, show_add_form, editing_blind_id, motor_price, motor_quantity,
          motor_shipping_price, profit, universal_ratio, excel_report_data, invoices, last_run,
          c_pc, c_args, c_pieces, c_remaining, c_results>>

session_vars == <<blinds_data, show_add_form, editing_blind_id, motor_price, motor_quantity,
                  motor_shipping_price, profit, universal_ratio, excel_report_data>>

\* what a script run leaves in last_run
Ran(handler, recalc_calls, error) ==
    [handler |-> handler, recalc_calls |-> recalc_calls, error |-> error]

calc_vars == <<c_pc, c_args, c_pieces, c_remaining, c_results>>

\* initialize_session_state
SessionInit ==
    /\ blinds_data = <<>>
    /\ show_add_form = FALSE
    /\ editing_blind_id = 0
    /\ motor_price = Zero
    /\ motor_quantity = 0
    /\ motor_shipping_price = Zero
    /\ profit = [p \in available_products |-> defaults[p].profit]
    /\ universal_ratio = [p \in available_products |-> defaults[p].ratio]
    /\ excel_report_data = <<>>
    /\ invoices = <<>>
    /\ last_run = Ran("none", 0, FALSE)

CalcIdle ==
    /\ c_pc = "idle"
    /\ c_args = <<>>
    /\ c_pieces = <<>>
    /\ c_remaining = Zero
    /\ c_results = <<>>

\* ------------------------------- one call of calculate_blind_costs, stepwise
SelectionOf(S) == [p \in available_products |-> p \in S]

WithEntries(pricing, entries) ==
    [k \in DOMAIN pricing \cup DOMAIN entries |->
        IF k \in DOMAIN entries THEN entries[k] ELSE pricing[k]]

Without(pricing, keys) == [k \in DOMAIN pricing \ keys |-> pricing[k]]

OneEntry(k, v) == [x \in {k} |-> v]

CalcWidths == {Num(k) : k \in 1..MaxWidth} \cup {Rat(81, 2), Rat(171, 2)}

CalcHeights == {Rat(191, 2), Num(48)}

CalcRates == {Zero, Rat(9, 10), Num(-1)}

CalcSelections == {SelectionOf({}), SelectionOf({"sunscreen"}), SelectionOf({"sunscreen", "zebra"})}

CalcPricings ==
    {session_pricing,
     WithEntries(session_pricing, OneEntry(RatioKey("sunscreen"), Zero)),
     WithEntries(session_pricing, OneEntry(RatioKey("zebra"), Rat(-3, 10))),
     Without(session_pricing, {PriceKey("sunscreen")}),
     Without(session_pricing, {RatioKey("sunscreen")}),
     Without(session_pricing, DOMAIN session_pricing)}

CalcInputs ==
    [width : CalcWidths, height : CalcHeights, total_blinds : 1..MaxQty,
     pricing : CalcPricings, shipping_rate : CalcRates,
     selected_products : CalcSelections, resize_width : BOOLEAN]

CalcInit ==
    /\ SessionInit
    /\ c_pc = "call"
    /\ c_args \in {<<a>> : a \in CalcInputs}
    /\ c_pieces = <<>>
    /\ c_remaining = Zero
    /\ c_results = <<>>

\* lines 100-102 and 108-109: choose the branch
CalcEnter ==
    /\ c_pc = "call"
    /\ IF MustSplit(c_args[1].width, c_args[1].resize_width)
       THEN /\ c_remaining' = c_args[1].width
            /\ c_pieces' = <<>>
            /\ c_pc' = "loop"
       ELSE /\ c_pieces' = <<c_args[1].width>>
            /\ c_remaining' = c_remaining
            /\ c_pc' = "cost"
    /\ UNCHANGED <<c_args, c_results, session_vars, invoices, last_run>>

\* lines 103-105: one iteration of the while loop
CalcSplitIter ==
    /\ c_pc = "loop"
    /\ SplitTest(c_remaining)
    /\ c_pieces' = SplitBody(c_pieces, c_remaining)[1]
    /\ c_remaining' = SplitBody(c_pieces, c_remaining)[2]
    /\ UNCHANGED <<c_pc, c_args, c_results, session_vars, invoices, last_run>>

\* lines 106-107: the loop exits and the remainder is appended
CalcSplitExit ==
    /\ c_pc = "loop"
    /\ ~SplitTest(c_remaining)
    /\ c_pieces' = SplitTail(c_pieces, c_remaining)
    /\ c_pc' = "cost"
    /\ UNCHANGED <<c_remaining, c_args, c_results, session_vars, invoices, last_run>>

\* lines 111-140: shipping, product costs, return
CalcReturn ==
    /\ c_pc = "cost"
    /\ c_results' = <<CalcResults(c_pieces, c_args[1].width, c_args[1].height, c_args[1].total_blinds,
                                  c_args[1].pricing, c_args[1].shipping_rate,
                                  c_args[1].selected_products)>>
    /\ c_pc' = "done"
    /\ UNCHANGED <<c_pieces, c_remaining, c_args, session_vars, invoices, last_run>>

CalcNext == CalcEnter \/ CalcSplitIter \/ CalcSplitExit \/ CalcReturn

CalcSpec == CalcInit /\ [][CalcNext]_vars

\* the calls that differ in width and resize_width only, on the form's defaults
SplitInputs ==
    {a \in CalcInputs :
        /\ a.height = Rat(191, 2)
        /\ a.total_blinds = 2
        /\ a.shipping_rate = Rat(9, 10)
        /\ a.pricing = session_pricing
        /\ a.selected_products = SelectionOf({"sunscreen"})}

SplitInit == CalcInit /\ c_args[1] \in SplitInputs

\* the branch and the loop run on: nothing pre-empts a synchronous function
FairCalcSpec ==
    /\ SplitInit
    /\ [][CalcNext]_vars
    /\ WF_vars(CalcEnter)
    /\ WF_vars(CalcSplitIter)
    /\ WF_vars(CalcSplitExit)

\* ------------------------------------------------ claims on the calculator
Within(x, target, tol) == Le(Sub(x, target), tol) /\ Le(Sub(target, x), tol)

Last(s) == s[Len(s)]

\* C3's piece rule, for a finished call
C3_PiecesOK ==
    c_pc = "done" =>
        LET w == c_args[1].width
            n == Len(c_pieces)
        IN  /\ n >= 1
            /\ SumSeq(c_pieces) = w
            /\ c_results[1].number_of_splits = n
            /\ IF ~c_args[1].resize_width \/ Le(w, Num(40))
               THEN c_pieces = <<w>>
               ELSE /\ \A i \in 1..(n - 1) : c_pieces[i] = Num(40)
                    /\ Gt(Last(c_pieces), Zero)
                    /\ Le(Last(c_pieces), Num(40))
            /\ (w = Num(85) /\ c_args[1].resize_width) => c_pieces = <<Num(40), Num(40), Num(5)>>
            /\ (w = Num(80) /\ c_args[1].resize_width) => c_pieces = <<Num(40), Num(40)>>
            /\ (w = Num(40)) => c_pieces = <<Num(40)>>

\* C3: the piece sequence is [width] when resize_width is false or width <= 40,
\* otherwise pieces of exactly 40 followed by a final piece r with 0 < r <= 40;
\* it is non-empty, sums to width, number_of_splits is its length, and the
\* loop terminates (every call gets past it, to the cost computation).
C3_Splitter == [](C3_PiecesOK) /\ <>(c_pc \in {"cost", "done"})

C3_Witness ==
    /\ c_pc = "done"
    /\ c_args[1].width = Rat(171, 2)
    /\ c_args[1].resize_width
    /\ c_pieces = <<Num(40), Num(40), Rat(11, 2)>>

\* the per-piece cost as the claim writes it
C4_PerPiece(pieceWidth, shippingRate) ==
    Div(Mul(Div(Mul(Mul(Add(pieceWidth, Num(2)), Rat(5, 2)), Num(169)), Num(4850)), Num(10)),
        shippingRate)

\* C4: shipping cost = quantity * sum over pieces of the per-piece cost when
\* shippingRate > 0, and exactly 0 (no division) when shippingRate <= 0.
C4_ShippingCost ==
    c_pc = "done" =>
        IF Gt(c_args[1].shipping_rate, Zero)
        THEN c_results[1].shipping_cost =
                Mul(Num(c_args[1].total_blinds),
                    SumSeq([i \in 1..Len(c_pieces) |-> C4_PerPiece(c_pieces[i], c_args[1].shipping_rate)]))
        ELSE c_results[1].shipping_cost = Zero

C4_Witness ==
    /\ c_pc = "done"
    /\ Gt(c_args[1].shipping_rate, Zero)
    /\ Len(c_pieces) = 3
    /\ c_args[1].total_blinds = 2
    /\ Gt(c_results[1].shipping_cost, Zero)

C5_Case ==
    /\ c_pc = "done"
    /\ c_pieces = <<Num(40)>>
    /\ c_args[1].total_blinds = 2
    /\ c_args[1].shipping_rate = Rat(9, 10)

\* C5 as stated: pieces [40], quantity 2, rate 0.9 cost 78.02 (+-0.01)
C5_Original == C5_Case => Within(c_results[1].shipping_cost, Rat(7802, 100), Rat(1, 100))

\* C5 amended: pieces [40], quantity 2, rate 0.9 cost 81.31 (+-0.01)
C5_Amended == C5_Case => Within(c_results[1].shipping_cost, Rat(8131, 100), Rat(1, 100))

C5_Witness == C5_Case /\ c_results[1].shipping_cost = Rat(23660, 291)

HasPricing(pricing, name) == PriceKey(name) \in DOMAIN pricing /\ RatioKey(name) \in DOMAIN pricing

\* the product cost as the claim writes it, on the undivided quantity
C6_Expected(width, height, quantity, price, ratio, isSelected) ==
    IF ~isSelected THEN Zero
    ELSE IF Le(ratio, Zero) THEN Zero
    ELSE Div(Mul(Mul(Mul(width, height), Num(quantity)), price), Mul(Num(144), ratio))

\* C6: a product's cost is 0 when not selected, 0 when selected with
\* ratio <= 0 (never an error), else ((width*height/144)*quantity)*(price/ratio)
\* on the undivided quantity; 36 x 95.5, qty 2, price 2.1, ratio 0.3 gives 334.25.
C6_ProductCost ==
    c_pc = "done" =>
        /\ \A name \in DOMAIN c_args[1].selected_products :
              HasPricing(c_args[1].pricing, name) =>
                 /\ ~IsErr(c_results[1].cost[name])
                 /\ c_results[1].cost[name] =
                       C6_Expected(c_args[1].width, c_args[1].height, c_args[1].total_blinds,
                                   c_args[1].pricing[PriceKey(name)], c_args[1].pricing[RatioKey(name)],
                                   c_args[1].selected_products[name])
        /\ (/\ c_args[1].width = Num(36)
            /\ c_args[1].height = Rat(191, 2)
            /\ c_args[1].total_blinds = 2
            /\ c_args[1].selected_products["sunscreen"]
            /\ HasPricing(c_args[1].pricing, "sunscreen")
            /\ c_args[1].pricing[PriceKey("sunscreen")] = Rat(21, 10)
            /\ c_args[1].pricing[RatioKey("sunscreen")] = Rat(3, 10))
           => c_results[1].cost["sunscreen"] = Rat(33425, 100)

C6_Witness ==
    /\ c_pc = "done"
    /\ c_results[1].number_of_splits = 3
    /\ c_args[1].total_blinds = 2
    /\ c_args[1].selected_products["sunscreen"]
    /\ c_args[1].selected_products["zebra"]
    /\ ~c_args[1].selected_products["curtain"]
    /\ HasPricing(c_args[1].pricing, "sunscreen")
    /\ c_args[1].pricing[RatioKey("sunscreen")] = Zero
    /\ c_results[1].cost["sunscreen"] = Zero
    /\ Gt(c_results[1].cost["zebra"], Zero)

\* ------------------------------------------------------ session helpers
RECURSIVE SeqMax(_)
SeqMax(ids) ==
    IF Len(ids) = 1 THEN Head(ids)
    ELSE LET m == SeqMax(Tail(ids)) IN IF Head(ids) > m THEN Head(ids) ELSE m

Ids(blinds) == [i \in 1..Len(blinds) |-> blinds[i].id]

\* [b for b in blinds_data if b['id'] != blind_id]
WithoutId(blinds, blind_id) == SelectSeq(blinds, LAMBDA b : b.id # blind_id)

\* float(text) of the form's text inputs
float_table ==
    [t \in {"2.1", "2.6", "1.7", "1.9", "0.3", "0.5", "0"} |->
        CASE t = "2.1" -> Rat(21, 10)
          [] t = "2.6" -> Rat(26, 10)
          [] t = "1.7" -> Rat(17, 10)
          [] t = "1.9" -> Rat(19, 10)
          [] t = "0.3" -> Rat(3, 10)
          [] t = "0.5" -> Rat(5, 10)
          [] t = "0"   -> Zero]

\* float(text) raises ValueError on any other text
RaisesValueError(text) == text \notin DOMAIN float_table

float(text) == float_table[text]

\* str(x) of the prices the form shows as defaults
str(x) == CHOOSE t \in DOMAIN float_table : float_table[t] = x

\* a recalculation that adds the new shipping cost to the stored one
RecalcBlind_Accumulating(blind) ==
    LET updated_costs == calculate_blind_costs(blind.width, blind.height, blind.total_blinds,
                                               blind.pricing, blind.shipping_rate,
                                               blind.selected_products, blind.resize_width)
    IN  [blind EXCEPT !.total_sqft = updated_costs.total_sqft,
                      !.shipping_cost = Add(@, updated_costs.shipping_cost),
                      !.actual_total_pieces = updated_costs.actual_total_pieces,
                      !.number_of_splits = updated_costs.number_of_splits,
                      !.cost = updated_costs.cost]

\* a recalculation that leaves the stored per-product costs as they are
RecalcBlind_StaleCosts(blind) ==
    LET updated_costs == calculate_blind_costs(blind.width, blind.height, blind.total_blinds,
                                               blind.pricing, blind.shipping_rate,
                                               blind.selected_products, blind.resize_width)
    IN  [blind EXCEPT !.total_sqft = updated_costs.total_sqft,
                      !.shipping_cost = updated_costs.shipping_cost,
                      !.actual_total_pieces = updated_costs.actual_total_pieces,
                      !.number_of_splits = updated_costs.number_of_splits]

\* recalculate_all_blinds: every blind re-priced from its own stored data
RecalcBlind(blind) ==
    LET updated_costs == calculate_blind_costs(blind.width, blind.height, blind.total_blinds,
                                               blind.pricing, blind.shipping_rate,
                                               blind.selected_products, blind.resize_width)
    IN  [blind EXCEPT !.total_sqft = updated_costs.total_sqft,
                      !.shipping_cost = updated_costs.shipping_cost,
                      !.actual_total_pieces = updated_costs.actual_total_pieces,
                      !.number_of_splits = updated_costs.number_of_splits,
                      !.cost = updated_costs.cost]

recalculate_all_blinds(blinds) == [i \in 1..Len(blinds) |-> RecalcBlind(blinds[i])]

\* main: the products some blind selects, sorted by name
sorted_products == <<"curtain", "solid_blackout", "sunscreen", "zebra">>

active_products_for_settings(blinds) ==
    SelectSeq(sorted_products,
              LAMBDA p : \E i \in 1..Len(blinds) : DictGet(blinds[i].selected_products, p, FALSE))

SeqToSet(s) == {s[i] : i \in 1..Len(s)}

\* ------------------------------------------------------ the form's inputs
\* one filled-in form: the widgets' values, the multiselect, and the text typed
\* into each selected product's "Profit Ratio" ("Price" keeps its default text)
FormFill(width, resize_width, selected_product_names, ratio_str) ==
    [width |-> width, height |-> Rat(191, 2), total_blinds |-> 2, shipping_rate |-> Rat(9, 10),
     resize_width |-> resize_width, selected_product_names |-> selected_product_names,
     ratio_str |-> ratio_str]

NoText == [name \in {} |-> ""]

FormInputs ==
    {FormFill(Num(36), TRUE, {}, NoText),
     FormFill(Num(85), TRUE, {"sunscreen", "zebra"},
              [name \in {"sunscreen", "zebra"} |-> IF name = "sunscreen" THEN "0.5" ELSE "0.3"]),
     FormFill(Num(85), FALSE, {"sunscreen"}, [name \in {"sunscreen"} |-> "0"]),
     FormFill(Num(36), TRUE, {"sunscreen"}, [name \in {"sunscreen"} |-> "abc"])}

\* the values typed into the bulk update section: <<product, new ratio>>
UniversalRatioInputs == {<<"zebra", Rat(5, 10)>>}

ProfitInputs == {Rat(7, 10), Rat(5, 10)}

MotorPriceInputs == {Zero, Num(150)}

MotorShippingInputs == {Zero, Num(20)}

\* -------------------------------------------------- the session operations
\* main: the "Add New Blind" button
OpenAddForm ==
    /\ ~show_add_form
    /\ show_add_form' = TRUE
    /\ editing_blind_id' = 0
    /\ last_run' = Ran("none", 0, FALSE)
    /\ UNCHANGED <<blinds_data, motor_price, motor_quantity, motor_shipping_price, profit,
                   universal_ratio, excel_report_data, invoices, calc_vars>>

\* add_blind_form: the Cancel button
CancelForm ==
    /\ show_add_form
    /\ show_add_form' = FALSE
    /\ editing_blind_id' = 0
    /\ last_run' = Ran("none", 0, FALSE)
    /\ UNCHANGED <<blinds_data, motor_price, motor_quantity, motor_shipping_price, profit,
                   universal_ratio, excel_report_data, invoices, calc_vars>>

\* display_blinds_table: the edit button of one row
OpenEditForm ==
    /\ \E i \in 1..Len(blinds_data) :
          /\ editing_blind_id' = blinds_data[i].id
          /\ show_add_form' = TRUE
    /\ last_run' = Ran("none", 0, FALSE)
    /\ UNCHANGED <<blinds_data, motor_price, motor_quantity, motor_shipping_price, profit,
                   universal_ratio, excel_report_data, invoices, calc_vars>>

\* line 570 with len() in the place of max()
blind_id_FromLen(editing, blinds) ==
    IF editing # 0 THEN editing ELSE IF blinds # <<>> THEN Len(blinds) + 1 ELSE 1

\* line 570: editing_blind_id or (max id + 1 if blinds_data else 1)
blind_id(editing, blinds) ==
    IF editing # 0 THEN editing ELSE IF blinds # <<>> THEN SeqMax(Ids(blinds)) + 1 ELSE 1

\* add_blind_form, "if submitted": the blinds_data a valid submit leaves
SubmittedBlinds(width, height, total_blinds, shipping_rate, resize_width, selected_product_names, custom_pricing) ==
    LET is_editing == editing_blind_id # 0
        selected_products == [name \in available_products |-> name \in selected_product_names]
        final_pricing == WithEntries(session_pricing, custom_pricing)
        costs == calculate_blind_costs(width, height, total_blinds, final_pricing, shipping_rate,
                                       selected_products, resize_width)
        id == blind_id(editing_blind_id, blinds_data)
        kept == IF is_editing THEN WithoutId(blinds_data, id) ELSE blinds_data
        new_blind_data ==
            [id |-> id, width |-> width, height |-> height, total_blinds |-> total_blinds,
             shipping_rate |-> shipping_rate, resize_width |-> resize_width,
             selected_products |-> selected_products, pricing |-> final_pricing,
             total_sqft |-> costs.total_sqft, shipping_cost |-> costs.shipping_cost,
             actual_total_pieces |-> costs.actual_total_pieces,
             number_of_splits |-> costs.number_of_splits, cost |-> costs.cost]
    IN  Append(kept, new_blind_data)

\* the text of the form's "Price" inputs: str() of the default price
price_str(names) == [name \in names |-> str(session_pricing[PriceKey(name)])]

\* add_blind_form, "try": some text input of the form is not a number
FormRaisesValueError(form) ==
    \E n \in form.selected_product_names :
        RaisesValueError(price_str(form.selected_product_names)[n]) \/ RaisesValueError(form.ratio_str[n])

\* "except ValueError" reached after the old item of an edit was removed
SubmitError_ItemRemoved ==
    /\ last_run' = Ran("none", 0, TRUE)
    /\ blinds_data' = WithoutId(blinds_data, editing_blind_id)
    /\ UNCHANGED <<show_add_form, editing_blind_id, motor_price, motor_quantity,
                   motor_shipping_price, profit, universal_ratio, excel_report_data>>

\* add_blind_form, "except ValueError": st.error(...); st.stop()
SubmitError ==
    /\ last_run' = Ran("none", 0, TRUE)
    /\ UNCHANGED session_vars

\* add_blind_form: the submit button (add or update) on one filled-in form
Submit(form) ==
    /\ show_add_form
    /\ LET names == form.selected_product_names
           parsed == [k \in {PriceKey(n) : n \in names} \cup {RatioKey(n) : n \in names} |->
                         IF k[2] = "price" THEN float(price_str(names)[k[1]])
                         ELSE float(form.ratio_str[k[1]])]
       IN  IF FormRaisesValueError(form)
           THEN SubmitError
           ELSE LET result == SubmittedBlinds(form.width, form.height, form.total_blinds,
                                              form.shipping_rate, form.resize_width, names, parsed)
                IN  /\ Len(result) <= MaxBlinds
                    /\ \A i \in 1..Len(result) : result[i].id <= MaxId
                    /\ blinds_data' = result
                    /\ show_add_form' = FALSE
                    /\ editing_blind_id' = 0
                    /\ last_run' = Ran(IF editing_blind_id # 0 THEN "edit" ELSE "add", 0, FALSE)
                    /\ UNCHANGED <<motor_price, motor_quantity, motor_shipping_price, profit,
                                   universal_ratio, excel_report_data>>
    /\ UNCHANGED <<invoices, calc_vars>>

SubmitForm == \E form \in FormInputs : Submit(form)

\* display_blinds_table: the delete button of one row
DeleteBlind ==
    /\ \E i \in 1..Len(blinds_data) :
          blinds_data' = recalculate_all_blinds(WithoutId(blinds_data, blinds_data[i].id))
    /\ last_run' = Ran("delete", 1, FALSE)
    /\ UNCHANGED <<show_add_form, editing_blind_id, motor_price, motor_quantity,
                   motor_shipping_price, profit, universal_ratio, excel_report_data, invoices, calc_vars>>

\* bulk_update_ratios: the blinds after the nested loops, before the recalculation
BulkRewritten(blinds, active_products) ==
    [i \in 1..Len(blinds) |->
        [blinds[i] EXCEPT !.pricing =
            WithEntries(@, [k \in {RatioKey(p) : p \in {q \in SeqToSet(active_products) :
                                       DictGet(blinds[i].selected_products, q, FALSE)}} |->
                               universal_ratio[k[1]]])]]

\* bulk_update_ratios without its closing recalculate_all_blinds()
bulk_update_ratios_NoRecalc(blinds, active_products) == BulkRewritten(blinds, active_products)

bulk_update_ratios(blinds, active_products) ==
    recalculate_all_blinds(BulkRewritten(blinds, active_products))

\* main: the "Apply Ratios to All" button
ApplyRatiosToAll ==
    /\ blinds_data # <<>>
    /\ active_products_for_settings(blinds_data) # <<>>
    /\ blinds_data' = bulk_update_ratios(blinds_data, active_products_for_settings(blinds_data))
    /\ last_run' = Ran("bulk", 1, FALSE)
    /\ UNCHANGED <<show_add_form, editing_blind_id, motor_price, motor_quantity,
                   motor_shipping_price, profit, universal_ratio, excel_report_data, invoices, calc_vars>>

\* main: a "<product> Ratio" number input of the bulk update section
SetUniversalRatio ==
    /\ blinds_data # <<>>
    /\ \E input \in UniversalRatioInputs :
          /\ input[1] \in SeqToSet(active_products_for_settings(blinds_data))
          /\ universal_ratio' = [universal_ratio EXCEPT ![input[1]] = input[2]]
    /\ last_run' = Ran("none", 0, FALSE)
    /\ UNCHANGED <<blinds_data, show_add_form, editing_blind_id, motor_price, motor_quantity,
                   motor_shipping_price, profit, excel_report_data, invoices, calc_vars>>

\* main: a "<product> Profit %" number input
SetProfit ==
    /\ blinds_data # <<>>
    /\ \E p \in SeqToSet(active_products_for_settings(blinds_data)), v \in ProfitInputs :
          profit' = [profit EXCEPT ![p] = v]
    /\ last_run' = Ran("none", 0, FALSE)
    /\ UNCHANGED <<blinds_data, show_add_form, editing_blind_id, motor_price, motor_quantity,
                   motor_shipping_price, universal_ratio, excel_report_data, invoices, calc_vars>>

\* main: the three motor number inputs
SetMotorPrice ==
    /\ blinds_data # <<>>
    /\ motor_price' \in MotorPriceInputs
    /\ last_run' = Ran("none", 0, FALSE)
    /\ UNCHANGED <<blinds_data, show_add_form, editing_blind_id, motor_quantity,
                   motor_shipping_price, profit, universal_ratio, excel_report_data, invoices, calc_vars>>

SetMotorQuantity ==
    /\ blinds_data # <<>>
    /\ motor_quantity' \in 0..MaxMotorQty
    /\ last_run' = Ran("none", 0, FALSE)
    /\ UNCHANGED <<blinds_data, show_add_form, editing_blind_id, motor_price,
                   motor_shipping_price, profit, universal_ratio, excel_report_data, invoices, calc_vars>>

SetMotorShipping ==
    /\ blinds_data # <<>>
    /\ motor_shipping_price' \in MotorShippingInputs
    /\ last_run' = Ran("none", 0, FALSE)
    /\ UNCHANGED <<blinds_data, show_add_form, editing_blind_id, motor_price,
                   motor_quantity, profit, universal_ratio, excel_report_data, invoices, calc_vars>>

\* main: the "Clear All Blinds" button
ClearAllBlinds ==
    /\ blinds_data # <<>>
    /\ blinds_data' = <<>>
    /\ motor_quantity' = 0
    /\ last_run' = Ran("clear", 0, FALSE)
    /\ UNCHANGED <<show_add_form, editing_blind_id, motor_price, motor_shipping_price, profit,
                   universal_ratio, excel_report_data, invoices, calc_vars>>

\* ------------------------------------------ main: saving and loading invoices
\* the names typed into "Invoice Name"
InvoiceNames == {"A"}

\* session_data_to_save: the keys of keys_to_save and every profit_* and
\* universal_ratio_* key ("saved_at" plays no part and is left out)
session_data_to_save ==
    [blinds_data |-> blinds_data, motor_price |-> motor_price, motor_quantity |-> motor_quantity,
     motor_shipping_price |-> motor_shipping_price, pricing |-> session_pricing,
     profit |-> profit, universal_ratio |-> universal_ratio]

\* invoices_table.upsert(invoice_data, Invoice.name == invoice_name) written as insert
upsert_AlwaysInsert(table, invoice_data) == Append(table, invoice_data)

\* invoices_table.upsert(invoice_data, Invoice.name == invoice_name): every
\* document of that name is updated, and the document is inserted if there is none
upsert(table, invoice_data) ==
    IF \E i \in 1..Len(table) : table[i].name = invoice_data.name
    THEN [i \in 1..Len(table) |-> IF table[i].name = invoice_data.name THEN invoice_data ELSE table[i]]
    ELSE Append(table, invoice_data)

\* invoices_table.get(Invoice.name == selected_invoice_name): the first match
get(table, selected_invoice_name) ==
    table[CHOOSE i \in 1..Len(table) :
             /\ table[i].name = selected_invoice_name
             /\ \A j \in 1..(i - 1) : table[j].name # selected_invoice_name]

\* main: the "Save Current Invoice" button
SaveInvoice ==
    /\ blinds_data # <<>>
    /\ \E invoice_name \in InvoiceNames :
          invoices' = upsert(invoices, [name |-> invoice_name, session_data |-> session_data_to_save])
    /\ last_run' = Ran("save", 0, FALSE)
    /\ UNCHANGED <<session_vars, calc_vars>>

\* main: the "Load Invoice" button on a name of the select box
LoadInvoice ==
    /\ \E k \in 1..Len(invoices) :
          LET invoice_data == get(invoices, invoices[k].name)
          IN  /\ blinds_data' = invoice_data.session_data.blinds_data
              /\ motor_price' = invoice_data.session_data.motor_price
              /\ motor_quantity' = invoice_data.session_data.motor_quantity
              /\ motor_shipping_price' = invoice_data.session_data.motor_shipping_price
              /\ profit' = invoice_data.session_data.profit
              /\ universal_ratio' = invoice_data.session_data.universal_ratio
    /\ last_run' = Ran("load", 0, FALSE)
    /\ UNCHANGED <<show_add_form, editing_blind_id, excel_report_data, invoices, calc_vars>>

\* ------------------------------------------------ main: the cost summary
CostOf(b, p) == DictGet(b.cost, p, Zero)

sub_totals(p) == SumSeq([i \in 1..Len(blinds_data) |-> CostOf(blinds_data[i], p)])

ShippingOf(blinds) == SumSeq([i \in 1..Len(blinds) |-> blinds[i].shipping_cost])

shipping_totals(p) ==
    ShippingOf(SelectSeq(blinds_data, LAMBDA b : DictGet(b.selected_products, p, FALSE)))

\* profit_totals taken on sub-total plus shipping
profit_totals_WithShipping(p) == Mul(Add(sub_totals(p), shipping_totals(p)), profit[p])

profit_totals(p) == Mul(sub_totals(p), profit[p])

total_motor_cost == Mul(Num(motor_quantity), Add(motor_price, motor_shipping_price))

\* sum(d.values()) over the catalog, in catalog order
SumValues(d) == SumSeq([i \in DOMAIN default_products |-> d[default_products[i]]])

net_profit == SumValues([p \in available_products |-> profit_totals(p)])

overall_sub_total == SumValues([p \in available_products |-> sub_totals(p)])

\* overall_shipping_total taken as the sum of the per-product shipping totals
overall_shipping_total_PerProduct ==
    SumValues([p \in available_products |-> shipping_totals(p)])

overall_shipping_total == ShippingOf(blinds_data)

\* bill_total with the motor's shipping price left out
bill_total_NoMotorShipping ==
    Add(Add(overall_sub_total, overall_shipping_total), Mul(Num(motor_quantity), motor_price))

bill_total == Add(Add(overall_sub_total, overall_shipping_total), total_motor_cost)

\* ------------------------------------------------ generate_excel_report
\* A worksheet cell after recalculation: a number, a text or nothing.
NumCell(x) == [t |-> "num", v |-> x]

TextCell == [t |-> "text", v |-> Zero]

Blank == [t |-> "blank", v |-> Zero]

\* IFERROR(x, 0)
IfError(x) == IF IsErr(x) THEN Zero ELSE x

table_start_row == 1

\* the rows written in the order of the collection
SortById_Unsorted(blinds) == blinds

RECURSIVE SortById(_)
\* sorted(blinds_data, key=lambda x: x['id']): stable, ascending
SortById(blinds) ==
    IF blinds = <<>> THEN <<>>
    ELSE LET m == CHOOSE i \in 1..Len(blinds) :
                     /\ \A j \in 1..Len(blinds) : blinds[i].id <= blinds[j].id
                     /\ \A j \in 1..(i - 1) : blinds[j].id # blinds[i].id
         IN  <<blinds[m]>> \o SortById([k \in 1..(Len(blinds) - 1) |->
                                           IF k < m THEN blinds[k] ELSE blinds[k + 1]])

\* headers: nine fixed columns, one per active product, Shipping Cost, Line Total
HeaderCount(active_products) == 9 + Len(active_products) + 2

\* the price and ratio baked into a product cell's formula
ExcelPrice(blind, p) ==
    DictGet(blind.pricing, PriceKey(p), DictGet(session_pricing, PriceKey(p), Zero))

ExcelRatio(blind, p) ==
    DictGet(blind.pricing, RatioKey(p), DictGet(session_pricing, RatioKey(p), Num(1)))

\* =IFERROR(((C*D)/144)*E, 0)
sqft_formula(w_cell, h_cell, num_cell_undivided) ==
    IfError(Mul(Div(Mul(w_cell, h_cell), Num(144)), num_cell_undivided))

\* =IFERROR(IF(ratio>0, I*(price/ratio), 0), 0), or the literal 0 when not selected
p_formula(blind, p, sqft_cell) ==
    IF ~DictGet(blind.selected_products, p, FALSE) THEN Zero
    ELSE IfError(IF Gt(ExcelRatio(blind, p), Zero)
                 THEN Mul(sqft_cell, Div(ExcelPrice(blind, p), ExcelRatio(blind, p)))
                 ELSE Zero)

\* =IF(rate>0, ((((((C+2)*2.5)*13*13)/4850)*10)/rate)*F, 0)
shipping_formula(shipping_rate, w_cell, num_cell_total) ==
    IF Gt(shipping_rate, Zero)
    THEN Mul(Div(Mul(Div(Mul(Mul(Mul(Add(w_cell, Num(2)), Rat(5, 2)), Num(13)), Num(13)),
                         Num(4850)), Num(10)), shipping_rate),
             num_cell_total)
    ELSE Zero

\* one line-item row, columns 1..HeaderCount
BlindRow(blind, active_products) ==
    LET n == Len(active_products)
        sqft == sqft_formula(blind.width, blind.height, Num(blind.total_blinds))
        product_cells == [i \in 1..n |-> p_formula(blind, active_products[i], sqft)]
        shipping == shipping_formula(blind.shipping_rate, blind.width, Num(blind.actual_total_pieces))
    IN  [col \in 1..HeaderCount(active_products) |->
            CASE col = 1 -> NumCell(Num(blind.id))
              [] col = 2 -> TextCell
              [] col = 3 -> NumCell(blind.width)
              [] col = 4 -> NumCell(blind.height)
              [] col = 5 -> NumCell(Num(blind.total_blinds))
              [] col = 6 -> NumCell(Num(blind.actual_total_pieces))
              [] col = 7 -> TextCell
              [] col = 8 -> TextCell
              [] col = 9 -> NumCell(sqft)
              [] col >= 10 /\ col <= 9 + n -> NumCell(product_cells[col - 9])
              [] col = 10 + n -> NumCell(shipping)
              [] OTHER -> NumCell(Add(SumSeq(product_cells), shipping))]

\* ws.cell(row, column, value) on one row
SetCell(row, column, value) ==
    [col \in DOMAIN row \cup {column} |-> IF col = column THEN value ELSE row[col]]

\* the value a formula reads from a cell
Ref(row, column) == IF row[column].t = "num" THEN row[column].v ELSE Zero

\* the motor row: its cells are written one after the other
MotorRow(active_products) ==
    LET first_product_col_idx == 10
        shipping_col_idx == 9 + Len(active_products) + 1
        total_col_idx == shipping_col_idx + 1
        r0 == [col \in 1..HeaderCount(active_products) |-> Blank]
        r1 == SetCell(r0, 2, TextCell)
        r2 == SetCell(r1, 5, NumCell(Num(motor_quantity)))
        r3 == SetCell(r2, 6, NumCell(Num(motor_quantity)))
        r4 == SetCell(r3, first_product_col_idx, NumCell(motor_price))
        r5 == SetCell(r4, shipping_col_idx, NumCell(motor_shipping_price))
        motor_total_formula ==
            Mul(Add(Ref(r5, first_product_col_idx), Ref(r5, shipping_col_idx)), Ref(r5, 6))
    IN  SetCell(r5, total_col_idx, NumCell(motor_total_formula))

\* the cell of worksheet row r; rows[i] is worksheet row table_start_row + i
CellAt(rows, r, column) ==
    IF r - table_start_row \in 1..Len(rows) /\ column \in DOMAIN rows[r - table_start_row]
    THEN rows[r - table_start_row][column]
    ELSE IF r = table_start_row THEN TextCell ELSE Blank

\* =SUM(X<first>:X<last>): texts and empty cells count for nothing
SumRange(rows, column, first, last) ==
    LET lo == IF first <= last THEN first ELSE last
        hi == IF first <= last THEN last ELSE first
        cells == [k \in 1..(hi - lo + 1) |-> CellAt(rows, lo + k - 1, column)]
    IN  SumSeq([k \in 1..Len(cells) |-> IF cells[k].t = "num" THEN cells[k].v ELSE Zero])

\* last_blind_row taken to be the last data row
last_blind_row_WithMotorRow(last_data_row) == last_data_row

\* line 456: the motor row, when there is one, is the last data row
last_blind_row(last_data_row) == last_data_row - (IF motor_quantity > 0 THEN 1 ELSE 0)

generate_excel_report(blinds, active_products) ==
    LET sorted == SortById(blinds)
        blind_rows == [i \in 1..Len(sorted) |-> BlindRow(sorted[i], active_products)]
        rows == IF motor_quantity > 0 THEN Append(blind_rows, MotorRow(active_products))
                ELSE blind_rows
        row_num == table_start_row + 1 + Len(rows)
        last_data_row == row_num - 1
        shipping_col == 9 + Len(active_products) + 1
        total_col == HeaderCount(active_products)
    IN  [rows |-> rows,
         blind_ids |-> Ids(sorted),
         active_products |-> active_products,
         last_data_row |-> last_data_row,
         last_blind_row |-> last_blind_row(last_data_row),
         summary_start_row |-> row_num + 1,
         shipping_range |-> <<shipping_col, table_start_row + 1, last_data_row>>,
         shipping_total |-> SumRange(rows, shipping_col, table_start_row + 1, last_data_row),
         only_cost_range |-> [i \in 1..Len(active_products) |->
                                 <<9 + i, table_start_row + 1, last_blind_row(last_data_row)>>],
         only_cost |-> [i \in 1..Len(active_products) |->
                           SumRange(rows, 9 + i, table_start_row + 1,
                                    last_blind_row(last_data_row))],
         bill_range |-> <<total_col, table_start_row + 1, last_data_row>>,
         bill_total |-> SumRange(rows, total_col, table_start_row + 1, last_data_row)]

\* main: the "Gen. Excel" button
GenExcel ==
    /\ blinds_data # <<>>
    /\ excel_report_data' =
          <<generate_excel_report(blinds_data, active_products_for_settings(blinds_data))>>
    /\ last_run' = Ran("none", 0, FALSE)
    /\ UNCHANGED <<blinds_data, show_add_form, editing_blind_id, motor_price, motor_quantity,
                   motor_shipping_price, profit, universal_ratio, invoices, calc_vars>>

\* main: the "Download Excel" button (on_click clears the stored report)
DownloadExcel ==
    /\ blinds_data # <<>>
    /\ excel_report_data # <<>>
    /\ excel_report_data' = <<>>
    /\ last_run' = Ran("none", 0, FALSE)
    /\ UNCHANGED <<blinds_data, show_add_form, editing_blind_id, motor_price, motor_quantity,
                   motor_shipping_price, profit, universal_ratio, invoices, calc_vars>>

\* ------------------------------------------------------ specifications
Init == SessionInit /\ CalcIdle

\* the operations on the collection
Next ==
    \/ OpenAddForm
    \/ CancelForm
    \/ OpenEditForm
    \/ SubmitForm
    \/ DeleteBlind
    \/ ApplyRatiosToAll
    \/ SetUniversalRatio
    \/ ClearAllBlinds

Spec == Init /\ [][Next]_vars

\* adding line items and changing the settings the cost summary reads
SummaryNext ==
    \/ OpenAddForm
    \/ SubmitForm
    \/ SetProfit
    \/ SetMotorPrice
    \/ SetMotorQuantity
    \/ SetMotorShipping
    \/ ClearAllBlinds

SummarySpec == Init /\ [][SummaryNext]_vars

\* adding and editing line items, the motor settings, and the report; a
\* generated report is downloaded before the session goes on
ExcelNext ==
    \/ excel_report_data = <<>> /\ OpenAddForm
    \/ excel_report_data = <<>> /\ OpenEditForm
    \/ excel_report_data = <<>> /\ SubmitForm
    \/ excel_report_data = <<>> /\ SetMotorPrice
    \/ excel_report_data = <<>> /\ SetMotorQuantity
    \/ excel_report_data = <<>> /\ SetMotorShipping
    \/ GenExcel
    \/ DownloadExcel

ExcelSpec == Init /\ [][ExcelNext]_vars

\* adding line items and updating their ratios in bulk
BulkNext ==
    \/ OpenAddForm
    \/ SubmitForm
    \/ SetUniversalRatio
    \/ ApplyRatiosToAll

BulkSpec == Init /\ [][BulkNext]_vars

\* the form, with valid and invalid text, on new and on stored line items
FormNext ==
    \/ OpenAddForm
    \/ OpenEditForm
    \/ CancelForm
    \/ SubmitForm
    \/ DeleteBlind

FormSpec == Init /\ [][FormNext]_vars

\* the form fillings of the sessions that save and load
PersistForms == {form \in FormInputs : form.selected_product_names = {"sunscreen", "zebra"}}

\* the line items and their ids, with saving and loading
IdNext ==
    \/ OpenAddForm
    \/ OpenEditForm
    \/ \E form \in PersistForms : Submit(form)
    \/ DeleteBlind
    \/ ClearAllBlinds
    \/ SaveInvoice
    \/ LoadInvoice

IdSpec == Init /\ [][IdNext]_vars

\* the sessions that save and load hold at most MaxSavedBlinds line items,
\* with ids up to MaxSavedBlinds + 1
SavedBound(blinds) ==
    /\ Len(blinds) <= MaxSavedBlinds
    /\ \A i \in 1..Len(blinds) : blinds[i].id <= MaxSavedBlinds + 1

\* every operation on the collection, with saving and loading
PersistNext ==
    \/ OpenAddForm
    \/ OpenEditForm
    \/ \E form \in PersistForms : Submit(form) /\ SavedBound(blinds_data')
    \/ DeleteBlind
    \/ ApplyRatiosToAll
    \/ SetMotorPrice
    \/ ClearAllBlinds
    \/ SaveInvoice
    \/ LoadInvoice

PersistSpec == Init /\ [][PersistNext]_vars

\* ------------------------------------- claims on the summary and the report
\* what calculate_blind_costs returns for a stored blind's own inputs
Native(b) ==
    calculate_blind_costs(b.width, b.height, b.total_blinds, b.pricing, b.shipping_rate,
                          b.selected_products, b.resize_width)

BlindWithId(id) == blinds_data[CHOOSE i \in 1..Len(blinds_data) : blinds_data[i].id = id]

\* C1: every line-item row of the report evaluates to the TotalSqFt, the
\* per-product costs and the ShippingCost calculate_blind_costs gives the item.
C1_RowsMatchNative ==
    excel_report_data # <<>> =>
        LET rep == excel_report_data[1]
            n == Len(rep.active_products)
        IN  \A i \in 1..Len(rep.blind_ids) :
               LET native == Native(BlindWithId(rep.blind_ids[i]))
                   row == rep.rows[i]
               IN  /\ row[9].v = native.total_sqft
                   /\ \A j \in 1..n : row[9 + j].v = native.cost[rep.active_products[j]]
                   /\ row[10 + n].v = native.shipping_cost

\* C2: the native bill_total equals the report's Bill Total formula (the sum
\* of the Line Total column over the line-item rows and the motor row).
C2_BillTotalRoundTrip ==
    excel_report_data # <<>> => excel_report_data[1].bill_total = bill_total

\* C7: a selected product whose price or ratio is missing from the item's
\* pricing is priced with the catalog default, natively and in the worksheet.
C7_CatalogFallback ==
    c_pc = "done" =>
        \A name \in DOMAIN c_args[1].selected_products :
            c_args[1].selected_products[name] =>
                LET price == DictGet(c_args[1].pricing, PriceKey(name), defaults[name].price)
                    ratio == DictGet(c_args[1].pricing, RatioKey(name), defaults[name].ratio)
                    expected == C6_Expected(c_args[1].width, c_args[1].height, c_args[1].total_blinds,
                                            price, ratio, TRUE)
                IN  /\ c_results[1].cost[name] = expected
                    /\ p_formula(c_args[1], name, c_results[1].total_sqft) = expected

RECURSIVE C8_ShippingOf(_)
\* the shipping cost of the line items at the indices S, each index once
C8_ShippingOf(S) ==
    IF S = {} THEN Zero
    ELSE LET i == CHOOSE k \in S : TRUE
         IN  Add(Native(blinds_data[i]).shipping_cost, C8_ShippingOf(S \ {i}))

Selects(b, p) == DictGet(b.selected_products, p, FALSE)

\* C8: overall shipping counts every line item's shipping cost exactly once;
\* a product's shipping sub-total sums it over exactly the items selecting
\* that product, so an item with two products counts under both.
C8_ShippingTotals ==
    blinds_data # <<>> =>
        /\ overall_shipping_total = C8_ShippingOf(1..Len(blinds_data))
        /\ \A p \in available_products :
              shipping_totals(p) =
                 C8_ShippingOf({i \in 1..Len(blinds_data) : Selects(blinds_data[i], p)})

C8_Witness ==
    /\ Len(blinds_data) = 2
    /\ \E i \in 1..2 : \A p \in available_products : ~Selects(blinds_data[i], p)
    /\ \E i \in 1..2 : Selects(blinds_data[i], "sunscreen") /\ Selects(blinds_data[i], "zebra")
    /\ Gt(shipping_totals("zebra"), Zero)
    /\ Gt(overall_shipping_total, shipping_totals("zebra"))

RECURSIVE C9_CostOf(_)
\* the cost of every product of the line items at the indices S
C9_CostOf(S) ==
    IF S = {} THEN Zero
    ELSE LET i == CHOOSE k \in S : TRUE
         IN  Add(SumValues(Native(blinds_data[i]).cost), C9_CostOf(S \ {i}))

\* C9: bill total = all product costs of all line items + overall shipping
\* + motor quantity * (motor price + motor shipping price), the motor once.
C9_BillTotal ==
    blinds_data # <<>> =>
        bill_total =
            Add(Add(C9_CostOf(1..Len(blinds_data)), C8_ShippingOf(1..Len(blinds_data))),
                Add(Mul(Num(motor_quantity), motor_price),
                    Mul(Num(motor_quantity), motor_shipping_price)))

C9_Witness ==
    /\ Len(blinds_data) = 2
    /\ motor_quantity > 0
    /\ Gt(motor_price, Zero)
    /\ Gt(motor_shipping_price, Zero)
    /\ Gt(overall_sub_total, Zero)
    /\ Gt(bill_total, Add(overall_sub_total, overall_shipping_total))

RECURSIVE C10_SubTotal(_, _)
\* the cost of product p over the line items at the indices S
C10_SubTotal(S, p) ==
    IF S = {} THEN Zero
    ELSE LET i == CHOOSE k \in S : TRUE
         IN  Add(Native(blinds_data[i]).cost[p], C10_SubTotal(S \ {i}, p))

\* C10: a product's profit is its sub-total alone times the session's profit
\* percentage of that product; net profit is the sum of the products' profits.
C10_Profit ==
    blinds_data # <<>> =>
        /\ \A p \in available_products :
              profit_totals(p) = Mul(C10_SubTotal(1..Len(blinds_data), p), profit[p])
        /\ net_profit =
              SumValues([p \in available_products |->
                            Mul(C10_SubTotal(1..Len(blinds_data), p), profit[p])])

C10_Witness ==
    /\ Len(blinds_data) = 2
    /\ profit["zebra"] = Rat(5, 10)
    /\ profit["sunscreen"] = Rat(7, 10)
    /\ Gt(sub_totals("zebra"), Zero)
    /\ Gt(sub_totals("sunscreen"), Zero)
    /\ Gt(shipping_totals("zebra"), Zero)
    /\ motor_quantity > 0
    /\ Gt(motor_price, Zero)
    /\ Gt(net_profit, Zero)

\* --------------------------------------------- claims on the recomputation
\* the collection after one more pass of recalculate_all_blinds
RecalculatedAgain == recalculate_all_blinds(blinds_data)

\* C11: recomputation is idempotent.  In a state left by a run that called
\* recalculate_all_blinds, a second pass over the unchanged collection yields
\* the same stored line items, and the aggregation over its result yields the
\* same sub-totals, shipping totals, profits, bill total and net profit as
\* the aggregation after the first pass: nothing accumulates.
C11_Idempotent ==
    last_run.recalc_calls = 1 =>
        LET again == RecalculatedAgain
            sub == [p \in available_products |->
                       SumSeq([i \in 1..Len(again) |-> CostOf(again[i], p)])]
            prof == [p \in available_products |-> Mul(sub[p], profit[p])]
        IN  /\ again = blinds_data
            /\ \A p \in available_products :
                  /\ sub[p] = sub_totals(p)
                  /\ ShippingOf(SelectSeq(again, LAMBDA b : Selects(b, p))) = shipping_totals(p)
                  /\ prof[p] = profit_totals(p)
            /\ ShippingOf(again) = overall_shipping_total
            /\ Add(Add(SumValues(sub), ShippingOf(again)), total_motor_cost) = bill_total
            /\ SumValues(prof) = net_profit

C11_Witness ==
    /\ last_run.recalc_calls = 1
    /\ Len(blinds_data) = 2
    /\ \E i \in 1..2 : blinds_data[i].number_of_splits > 1 /\ Selects(blinds_data[i], "zebra")
    /\ Gt(overall_shipping_total, Zero)
    /\ Gt(net_profit, Zero)

\* ------------------------------------------------ claims on the bulk update
\* the products a bulk update rewrites: every product some line item selects
BulkTargets == SeqToSet(active_products_for_settings(blinds_data))

\* C12: a bulk ratio update changes only line items that select the target
\* product: for every product P the update rewrites, every line item that
\* does not select P has the same pricing, the same per-product costs and
\* the same shipping cost after the update as before it.
C12_OnlySelectingItems ==
    [][last_run'.handler = "bulk" =>
          \A P \in BulkTargets : \A i \in 1..Len(blinds_data) :
              ~Selects(blinds_data[i], P) =>
                  /\ blinds_data'[i].pricing = blinds_data[i].pricing
                  /\ blinds_data'[i].cost = blinds_data[i].cost
                  /\ blinds_data'[i].shipping_cost = blinds_data[i].shipping_cost]_vars

\* C13: when a bulk update has returned, every line item that selects a
\* rewritten product P carries the new ratio of P in its pricing and its
\* stored cost of P is totalSquareFeet * (price / newRatio), 0 for a ratio
\* <= 0: no item is left with the old ratio, none with a stale cost.
C13_AllUpdated ==
    last_run.handler = "bulk" =>
        \A P \in BulkTargets : \A i \in 1..Len(blinds_data) :
            Selects(blinds_data[i], P) =>
                LET b == blinds_data[i]
                IN  /\ b.pricing[RatioKey(P)] = universal_ratio[P]
                    /\ b.cost[P] = C6_Expected(b.width, b.height, b.total_blinds,
                                               b.pricing[PriceKey(P)], universal_ratio[P], TRUE)

C13_Witness ==
    /\ last_run.handler = "bulk"
    /\ Len(blinds_data) = 2
    /\ universal_ratio["zebra"] = Rat(5, 10)
    /\ \A i \in 1..2 : /\ Selects(blinds_data[i], "zebra")
                        /\ blinds_data[i].pricing[RatioKey("zebra")] = Rat(5, 10)
                        /\ blinds_data[i].pricing[RatioKey("sunscreen")] = Rat(3, 10)
                        /\ Gt(blinds_data[i].cost["zebra"], Zero)

\* --------------------------------------------- claims on the collection
\* C14: every structural change of the collection (adding, editing or
\* deleting a line item, a bulk ratio update) runs one full recomputation,
\* recalculate_all_blinds, before control returns.
C14_RecomputeOnEveryChange ==
    last_run.handler \in {"add", "edit", "delete", "bulk"} => last_run.recalc_calls = 1

\* C15: in every state reached by adds, edits, deletes, bulk updates,
\* clear-all, saves and loads, the derived attributes stored with each line
\* item (total_sqft, number_of_splits, actual_total_pieces, shipping_cost and
\* every per-product cost) are what calculate_blind_costs returns for the
\* item's stored width, height, quantity, shipping rate, resize flag,
\* selection and pricing.
C15_DerivedFromStored ==
    \A i \in 1..Len(blinds_data) :
        LET b == blinds_data[i]
            native == Native(b)
        IN  /\ b.total_sqft = native.total_sqft
            /\ b.number_of_splits = native.number_of_splits
            /\ b.actual_total_pieces = native.actual_total_pieces
            /\ b.shipping_cost = native.shipping_cost
            /\ \A p \in available_products : b.cost[p] = native.cost[p]

\* a line item rewritten by a bulk update, saved, and loaded back
C15_Witness ==
    /\ last_run.handler = "load"
    /\ Len(blinds_data) = 1
    /\ blinds_data[1].pricing[RatioKey("sunscreen")] = Rat(3, 10)
    /\ blinds_data[1].number_of_splits > 1
    /\ Gt(blinds_data[1].cost["sunscreen"], Zero)
    /\ Gt(blinds_data[1].cost["zebra"], Zero)

\* C16: the ids of the line items are pairwise distinct positive integers in
\* every state reached by adds, edits, deletes, clear-all and loads; an add
\* gives the new item an id not in the collection (1 for an empty collection,
\* else the largest id + 1) and an edit keeps the id of the edited item.
C16_UniqueIds ==
    /\ [](\A i, j \in 1..Len(blinds_data) :
             /\ blinds_data[i].id >= 1
             /\ i # j => blinds_data[i].id # blinds_data[j].id)
    /\ [][/\ last_run'.handler = "add" =>
               /\ Len(blinds_data') = Len(blinds_data) + 1
               /\ Last(blinds_data').id \notin SeqToSet(Ids(blinds_data))
               /\ Last(blinds_data').id =
                     IF blinds_data = <<>> THEN 1 ELSE SeqMax(Ids(blinds_data)) + 1
          /\ last_run'.handler = "edit" => Last(blinds_data').id = editing_blind_id]_vars

\* an add after the item with the smallest id was deleted
C16_Witness ==
    /\ last_run.handler = "add"
    /\ Ids(blinds_data) = <<2, 3>>

\* C17: a submitted form with a price or ratio text that is not a number
\* raises before any mutation: the collection after the submit is the
\* collection before it.
C17_InvalidTextNoMutation ==
    [][last_run'.error => blinds_data' = blinds_data]_vars

\* the error shown on an edit form of a stored line item
C17_Witness ==
    /\ last_run.error
    /\ show_add_form
    /\ Len(blinds_data) = 2
    /\ editing_blind_id \in SeqToSet(Ids(blinds_data))

\* ------------------------------------------- claims on saving and loading
\* the session holds what the stored document holds
Restored(session_data) ==
    /\ blinds_data = session_data.blinds_data
    /\ motor_price = session_data.motor_price
    /\ motor_quantity = session_data.motor_quantity
    /\ motor_shipping_price = session_data.motor_shipping_price
    /\ session_pricing = session_data.pricing
    /\ profit = session_data.profit
    /\ universal_ratio = session_data.universal_ratio

ItemRows(rep) == SelectSeq(rep.rows, LAMBDA row : row[1].t = "num")

\* C19: the line-item rows of the report are in strictly ascending id order
\* whatever the order of the collection, there is exactly one row per line
\* item, and a motor row follows the last line-item row exactly when the
\* motor quantity is > 0.
C19_RowsInIdOrder ==
    excel_report_data # <<>> =>
        LET rep == excel_report_data[1]
            n == Len(blinds_data)
        IN  /\ Len(rep.rows) = n + (IF motor_quantity > 0 THEN 1 ELSE 0)
            /\ \A k \in 1..n : rep.rows[k][1].t = "num"
            /\ \A k \in 1..(n - 1) : Lt(rep.rows[k][1].v, rep.rows[k + 1][1].v)
            /\ \A i \in 1..n : \E k \in 1..n : rep.rows[k][1].v = Num(blinds_data[i].id)
            /\ motor_quantity > 0 =>
                  /\ rep.rows[n + 1][1].t = "blank"
                  /\ rep.rows[n + 1][5] = NumCell(Num(motor_quantity))

\* the report of a collection an edit has reordered, with a motor row
C19_Witness ==
    /\ excel_report_data # <<>>
    /\ Ids(blinds_data) = <<2, 1>>
    /\ motor_quantity > 0
    /\ Len(excel_report_data[1].rows) = 3
    /\ excel_report_data[1].rows[1][1].v = Num(1)

\* C20: the summary formulas sum over exactly the rows written.  Each
\* product's 'Only Cost' range runs from the first to the last line-item row
\* and leaves the motor row out, with or without a motor row; the total
\* shipping and the bill total ranges run from the first line-item row to the
\* last data row (the motor row if there is one, else the last line-item
\* row); none reaches the blank separator or the summary rows.
C20_SummaryRanges ==
    excel_report_data # <<>> =>
        LET rep == excel_report_data[1]
            n == Len(ItemRows(rep))
            first == table_start_row + 1
            last_item == table_start_row + n
            last_written == table_start_row + Len(rep.rows)
            np == Len(rep.active_products)
        IN  /\ n = Len(blinds_data)
            /\ \A i \in 1..np :
                  /\ rep.only_cost_range[i] = <<9 + i, first, last_item>>
                  /\ rep.only_cost[i] = SumSeq([k \in 1..n |-> rep.rows[k][9 + i].v])
            /\ rep.shipping_range = <<10 + np, first, last_written>>
            /\ rep.shipping_total = SumSeq([k \in 1..Len(rep.rows) |-> rep.rows[k][10 + np].v])
            /\ rep.bill_range = <<11 + np, first, last_written>>
            /\ rep.bill_total = SumSeq([k \in 1..Len(rep.rows) |-> rep.rows[k][11 + np].v])
            /\ rep.summary_start_row > last_written + 1

\* a report with two line items, two product columns and a motor row
C20_Witness ==
    /\ excel_report_data # <<>>
    /\ Len(blinds_data) = 2
    /\ Len(excel_report_data[1].active_products) = 2
    /\ motor_quantity > 0
    /\ Gt(motor_price, Zero)
    /\ Gt(excel_report_data[1].only_cost[1], Zero)
    /\ excel_report_data[1].only_cost_range[1] = <<10, 2, 3>>
    /\ excel_report_data[1].bill_range = <<13, 2, 4>>

\* C21: for every number of product columns, zero included, the motor row of
\* the report holds the motor price and the motor shipping price in two
\* distinct cells, and its Line Total evaluates to
\* motor_quantity * (motor_price + motor_shipping_price), the native motor cost.
C21_MotorRowCells ==
    (excel_report_data # <<>> /\ motor_quantity > 0) =>
        LET rep == excel_report_data[1]
            np == Len(rep.active_products)
            motor_row == rep.rows[Len(rep.rows)]
            first_product_col_idx == 10
            shipping_col_idx == 9 + np + 1
        IN  /\ first_product_col_idx # shipping_col_idx
            /\ motor_row[first_product_col_idx] = NumCell(motor_price)
            /\ motor_row[shipping_col_idx] = NumCell(motor_shipping_price)
            /\ motor_row[shipping_col_idx + 1] = NumCell(total_motor_cost)

\* the products P a bulk update is issued for: P is selected by some line
\* item and the user has typed a new ratio into the "<P> Ratio" input
BulkIssuedFor ==
    {input[1] : input \in {x \in UniversalRatioInputs :
                              x[1] \in BulkTargets /\ universal_ratio[x[1]] = x[2]}}

\* C22: a bulk ratio update issued to change the ratio of one product P
\* leaves, in every line item, the stored ratio of every other product Q and
\* the stored cost of Q as they were, also in line items that select both P
\* and Q and carry a custom ratio for Q.
C22_OtherRatiosKept ==
    [][(last_run'.handler = "bulk" /\ BulkIssuedFor # {}) =>
          \A Q \in available_products \ BulkIssuedFor : \A i \in 1..Len(blinds_data) :
              /\ blinds_data'[i].pricing[RatioKey(Q)] = blinds_data[i].pricing[RatioKey(Q)]
              /\ blinds_data'[i].cost[Q] = blinds_data[i].cost[Q]]_vars

\* ---------------------------------------------- claims on removed line items
\* C23: a line item that has been removed (by delete, clear-all or a snapshot
\* load) is not brought back by a later edit submission: submitting an edit
\* form opened for id N before N was removed inserts no line item with id N,
\* so an edit never increases the number of line items.
C23_NoResurrection ==
    [][last_run'.handler = "edit" =>
          /\ Len(blinds_data') <= Len(blinds_data)
          /\ \A i \in 1..Len(blinds_data') :
                \E j \in 1..Len(blinds_data) : blinds_data[j].id = blinds_data'[i].id]_vars

====
